---- MODULE Spec2Model ----
(***************************************************************************)
(* Model of giovp/spatial-alignment.                                       *)
(*                                                                         *)
(*   Spec      : the non-variational engine, src/warp_gp.py                *)
(*               (TwoLayerWarpGP.__init__, fit, gp_likelihood).            *)
(*   SpecTrain : the training loops of the two experiment drivers,         *)
(*               src/experiments/expression/slideseq/slideseq_prediction.py*)
(*               and src/experiments/expression/st/                        *)
(*               st_alignment_synthetic_warp.py.                           *)
(*   SpecUnpack: fit's parameter vector and unpack_params, for any         *)
(*               n_noise_variance_params, n_kernel_params, n_spatial_dims  *)
(*               and N.                                                    *)
(*   SpecAll   : Spec and SpecTrain together (either program runs).        *)
(*                                                                         *)
(* numpy indices are 0-based; TLA+ sequences are 1-based, so element ii of *)
(* a numpy array a is a[ii + 1] here.                                      *)
(***************************************************************************)
EXTENDS Integers, Sequences, FiniteSets, TLC

\* ------------------------------------------------------------------ bounds
\* Largest number of rows of X and of Y.
MaxRows == 3
\* Longest n_samples_list; n_views ranges over 1..MaxViews + 1.
MaxViews == 2
\* Per-view sample counts range over -NegCount..MaxCount.
MaxCount == 2
NegCount == 1
\* Largest number of objective evaluations scipy's minimize makes in one fit.
MaxEvals == 2
\* The drivers' N_EPOCHS and PRINT_EVERY (2000 and 100 or 200 in the source),
\* scaled down.
N_EPOCHS == 3
PRINT_EVERY == 2
\* Largest sample count of the first and of the second view in the drivers.
MaxN0 == 1
MaxN1 == 5
\* The slideseq driver's N_REPEATS (10 in the source), scaled down.
N_REPEATS == 2
\* Largest number of output channels, Y.shape[1].
MaxGenes == 2
\* fit/unpack_params configurations: n_noise_variance_params and
\* n_kernel_params range over 0..MaxSegment, n_spatial_dims over
\* 1..MaxDims, N over 0..MaxN.
MaxSegment == 2
MaxDims == 3
MaxN == 2
\* Warp parameters range over 0..MaxParam, loss values over 0..MaxLoss.
MaxParam == 1
MaxLoss == 1

\* ------------------------------------------------------------- constants
\* n_spatial_dims=2, n_kernel_params=4, n_noise_variance_params=1: the
\* constructor's defaults.
n_spatial_dims == 2
n_kernel_params == 4
n_noise_variance_params == 1
\* The column count unpack_params reshapes the warped coordinates to:
\* np.reshape(..., (self.N, 2)).
WarpedCols == 2
\* FRAC_TEST = 0.2: int(1.0 * n * FRAC_TEST) is n \div 5.
FRAC_TEST_INV == 5
\* S=3 in train's forward, S=10 in the evaluation forward.
S_train == 3
S_eval == 10

\* ------------------------------------------------------------- variables
VARIABLES
    \* ---- TwoLayerWarpGP (src/warp_gp.py)
    X_rows,          \* X.shape[0] of the constructor's argument X
    Y_rows,          \* Y.shape[0] of the constructor's argument Y
    n_views,         \* the constructor's argument n_views
    n_samples_list,  \* the constructor's argument n_samples_list
    self,            \* the object's attributes: a record of those assigned so far
    pc,              \* "new" | "constructed" | "fitting" | "fitted" | "raised"
    err,             \* [type, at]: the exception that ended the call, or NoErr
    n_evals,         \* objective evaluations made by the running fit
    LL_warp_terms,   \* the warp terms of the last gp_likelihood evaluation
    Y_cols,          \* Y.shape[1] of the constructor's argument Y
    X_vals,          \* the contents of the array X the object refers to, by row
    Y_vals,          \* the contents of the array Y, by row
    LL_obs_terms,    \* the observation terms of the last evaluation
    ret,             \* what fit returned to its caller
    \* ---- fit's parameter vector and unpack_params, for any configuration
    ucfg,            \* n_noise_variance_params, n_kernel_params, n_spatial_dims, N
    upc,             \* "new" | "built" | "unpacked"
    flat,            \* the flat vector fit builds (param_init)
    unpacked,        \* what unpack_params returned for it
    \* ---- experiment drivers
    driver,          \* "slideseq" | "st"
    dpc,             \* the driver's position
    derr,            \* the exception that ended the driver, or NoErr
    data,            \* the split of this repeat: index sets, coordinates, counts
    looped,          \* per-view prediction loop: what was done with each view
    t,               \* the epoch loop's index
    training,        \* model.training (torch.nn.Module)
    grad_enabled,    \* torch.is_grad_enabled()
    params,          \* the model's learnable warp parameters, per view
    calls,           \* calls made by the running train(), in order
    fwd,             \* the last forward call and what it returned
    loss,            \* the last value of loss_fn
    n_steps,         \* optimizer steps completed
    step_out,        \* the parameters the last optimizer step produced
    n_skipped,       \* evaluations whose try block raised and was skipped
    repeat_idx,      \* the slideseq repeat loop's index
    errors_union,    \* the three result lists of the slideseq driver
    errors_separate,
    errors_gpsa,
    error_gpsa       \* the slideseq loop's variable error_gpsa

warpVars == <<X_rows, Y_rows, n_views, n_samples_list, self, pc, err, n_evals,
              LL_warp_terms, Y_cols, X_vals, Y_vals, LL_obs_terms, ret>>
unpackVars == <<ucfg, upc, flat, unpacked>>
engineVars == <<warpVars, unpackVars>>
resultVars == <<repeat_idx, errors_union, errors_separate, errors_gpsa,
                error_gpsa>>
driverVars == <<driver, dpc, derr, data, looped, t, training, grad_enabled,
                params, calls, fwd, loss, n_steps, step_out, n_skipped,
                resultVars>>
vars == <<warpVars, unpackVars, driverVars>>

\* ------------------------------------------------------------ numpy helpers
RECURSIVE SumSeq(_)
\* np.sum of a list of integers.
SumSeq(l) == IF l = <<>> THEN 0 ELSE l[1] + SumSeq(Tail(l))

\* np.insert(np.cumsum(l), 0, 0): element ii (0-based) is the sum of the first
\* ii counts.
CumulativeSums(l) == [k \in 1..(Len(l) + 1) |-> SumSeq(SubSeq(l, 1, k - 1))]

\* np.arange(a, b): a, a+1, ..., b-1; empty when b <= a.
Arange(a, b) == IF b <= a THEN <<>> ELSE [k \in 1..(b - a) |-> a + k - 1]

\* The set of elements of a sequence.
Range(s) == {s[k] : k \in 1..Len(s)}

NoErr == [type |-> "none", at |-> "none"]

\* ---------------------------------------------- the flat parameter vector
\* An entry of the flat vector, named by the segment it was drawn for and its
\* place there (for a coordinate: sample i, spatial dimension j).
Elem(seg, i, j) == [seg |-> seg, i |-> i, j |-> j]

\* np.random.normal(size=n): n entries.
Segment(seg, n) == [k \in 1..n |-> Elem(seg, k - 1, 0)]

\* np.ndarray.flatten(self.X) + noise, for X of shape (N, d): row-major.
FlattenX(N, d) == [k \in 1..(N * d) |-> Elem("X", (k - 1) \div d, (k - 1) % d)]

\* param_init of fit (lines 163-173), for nn noise and nk kernel parameters.
ParamInit(nn, nk, d, N) ==
    Segment("noise", nn) \o Segment("kernel", nk) \o Segment("mean", d * d)
        \o FlattenX(N, d)

Min(a, b) == IF a <= b THEN a ELSE b

\* v[a:b] with 0 <= a, b: numpy clips both ends to the length of v.
Slice(v, a, b) == SubSeq(v, Min(a, Len(v)) + 1, Min(b, Len(v)))

\* np.reshape(v, (r, c)) needs exactly r * c entries (ValueError otherwise);
\* entry (i, j) of the result is v[i * c + j].
CanReshape(v, r, c) == r >= 0 /\ Len(v) = r * c
Reshape(v, r, c) ==
    [i \in 0..(r - 1) |-> [j \in 0..(c - 1) |-> v[i * c + j + 1]]]

NoUnpacked ==
    [raised |-> "none", noise_variance |-> <<>>, kernel_params |-> <<>>,
     mean_params |-> <<>>, X_warped |-> <<>>]

\* unpack_params(params, n_kernel_params) on an object with n_spatial_dims = d
\* and N = N: entry 0 is the noise parameter, whatever
\* n_noise_variance_params is, and the rest after the mean matrix is reshaped
\* to (N, 2), whatever d is.
UnpackParams(pars, nk, d, N) ==
    IF Len(pars) = 0
    THEN [NoUnpacked EXCEPT !.raised = "IndexError"]
    ELSE LET mean_flat == Slice(pars, nk + 1, nk + 1 + d * d)
             X_flat == Slice(pars, nk + d * d + 1, Len(pars))
         IN IF ~CanReshape(mean_flat, d, d) \/ ~CanReshape(X_flat, N, WarpedCols)
            THEN [NoUnpacked EXCEPT !.raised = "ValueError"]
            ELSE [raised |-> "none",
                  noise_variance |-> [exp_plus_001_of |-> pars[1]],
                  kernel_params |-> Slice(pars, 1, nk + 1),
                  mean_params |-> Reshape(mean_flat, d, d),
                  X_warped |-> Reshape(X_flat, N, WarpedCols)]

\* fit builds param_init for the object's configuration.
FitBuild ==
    /\ upc = "new"
    /\ flat' = ParamInit(ucfg.n_noise_variance_params, ucfg.n_kernel_params,
                         ucfg.n_spatial_dims, ucfg.N)
    /\ upc' = "built"
    /\ UNCHANGED <<ucfg, unpacked>>
    /\ UNCHANGED <<warpVars, driverVars>>

\* unpack_params(param_init, self.n_kernel_params), as gp_likelihood calls it.
Unpack ==
    /\ upc = "built"
    /\ unpacked' = UnpackParams(flat, ucfg.n_kernel_params, ucfg.n_spatial_dims,
                                ucfg.N)
    /\ upc' = "unpacked"
    /\ UNCHANGED <<ucfg, flat>>
    /\ UNCHANGED <<warpVars, driverVars>>

\* ------------------------------------------------- TwoLayerWarpGP.__init__
\* The sample-count lists the constructor is given: 1..MaxViews integers, each
\* in -NegCount..MaxCount (the constructor accepts any list of integers).
CountLists == UNION {[1..k -> (0 - NegCount)..MaxCount] : k \in 1..MaxViews}

\* `if X.shape[0] != Y.shape[0]: raise ValueError(...)`: the test that lets the
\* constructor go on.
ShapesMatch_unchecked(xr, yr) == TRUE
ShapesMatch(xr, yr) == xr = yr

\* The attributes assigned before view_idx is built (self.X ... self.N); X and
\* Y are kept by their row counts.
FieldsBeforeViewIdx(xr, yr, yc, nv, l) ==
    [X |-> xr, Y |-> yr, n_views |-> nv, n_samples_list |-> l, N |-> SumSeq(l),
     n_genes |-> yc]

\* cumulative_sums[ii + 1] is read for ii < n_views: past the end of the array
\* (IndexError) when n_views exceeds the length of n_samples_list.
CumulativeSumsIndexable(nv, l) == nv <= Len(l)

\* np.cumsum without the np.insert(..., 0, 0): the ranges start one view late.
ViewIdx_noinsert(nv, l) ==
    [ii \in 0..(nv - 1) |->
        Arange(SumSeq(SubSeq(l, 1, ii + 1)),
               SumSeq(SubSeq(l, 1, IF ii + 2 <= Len(l) THEN ii + 2 ELSE Len(l))))]
\* [np.arange(cumulative_sums[ii], cumulative_sums[ii + 1]) for ii in range(n_views)],
\* indexed by the view number ii = 0 .. n_views - 1.
ViewIdx(nv, l) ==
    [ii \in 0..(nv - 1) |->
        Arange(CumulativeSums(l)[ii + 1], CumulativeSums(l)[ii + 2])]

\* np.array(list of ranges): ranges of different lengths make a ragged array,
\* which numpy builds as an object array or refuses (ValueError), by version.
Ragged(vi) == \E a, b \in DOMAIN vi : Len(vi[a]) # Len(vi[b])

\* TwoLayerWarpGP(X, Y, n_views, n_samples_list, kernel): the whole constructor.
Construct ==
    /\ pc = "new"
    /\ IF ~ShapesMatch(X_rows, Y_rows)
       THEN /\ pc' = "raised"
            /\ err' = [type |-> "ValueError", at |-> "shape_check"]
            /\ self' = self
       ELSE IF ~CumulativeSumsIndexable(n_views, n_samples_list)
       THEN /\ pc' = "raised"
            /\ err' = [type |-> "IndexError", at |-> "cumulative_sums"]
            /\ self' = FieldsBeforeViewIdx(X_rows, Y_rows, Y_cols, n_views,
                                           n_samples_list)
       ELSE \E ragged_ok \in BOOLEAN :
            IF Ragged(ViewIdx(n_views, n_samples_list)) /\ ~ragged_ok
            THEN /\ pc' = "raised"
                 /\ err' = [type |-> "ValueError", at |-> "np.array"]
                 /\ self' = FieldsBeforeViewIdx(X_rows, Y_rows, Y_cols, n_views,
                                                n_samples_list)
            ELSE /\ pc' = "constructed"
                 /\ err' = NoErr
                 /\ self' = [X |-> X_rows, Y |-> Y_rows, n_views |-> n_views,
                             n_samples_list |-> n_samples_list,
                             N |-> SumSeq(n_samples_list),
                             n_genes |-> Y_cols,
                             view_idx |-> ViewIdx(n_views, n_samples_list)]
    /\ UNCHANGED <<X_rows, Y_rows, n_views, n_samples_list, n_evals,
                   LL_warp_terms, Y_cols, X_vals, Y_vals, LL_obs_terms, ret>>
    /\ UNCHANGED <<unpackVars, driverVars>>

\* ----------------------------------------------------- TwoLayerWarpGP.fit
\* np.ndarray.flatten(self.X) + np.random.normal(size=self.N * n_spatial_dims):
\* the two vectors add only when they have the same length (both lengths are
\* even, so neither broadcasts), and a negative size is refused.
ParamInitOk(xr, n) == n >= 0 /\ xr * n_spatial_dims = n * n_spatial_dims

\* The array behind self.X after param_init is built: np.ndarray.flatten
\* returns a copy and `+` makes a new array, so X keeps its contents; noise
\* added in place through a view would shift every coordinate.
XAfterParamInit_inplace(x) == [k \in 1..Len(x) |-> x[k] + 1]
XAfterParamInit(x) == x

\* The attributes fit sets (lines 175-180): plot_updates, and with it the
\* plotting state.
PlotAttrs(plot_updates, nv) ==
    IF plot_updates
    THEN [plot_updates |-> TRUE, n_to_plot |-> Min(nv, 3), data_ax |-> "axes",
          aligned_ax |-> "axes"]
    ELSE [plot_updates |-> FALSE]

\* fit(plot_updates), up to the call of minimize.
FitStart ==
    /\ pc = "constructed"
    /\ IF ParamInitOk(self.X, self.N)
       THEN /\ pc' = "fitting"
            /\ err' = NoErr
            /\ X_vals' = XAfterParamInit(X_vals)
            /\ \E plot_updates \in BOOLEAN :
                 self' = PlotAttrs(plot_updates, self.n_views) @@ self
       ELSE /\ pc' = "raised"
            /\ err' = [type |-> "ValueError", at |-> "param_init"]
            /\ UNCHANGED <<X_vals, self>>
    /\ n_evals' = 0
    /\ UNCHANGED <<X_rows, Y_rows, n_views, n_samples_list, LL_warp_terms,
                   Y_cols, Y_vals, LL_obs_terms, ret>>
    /\ UNCHANGED <<unpackVars, driverVars>>

\* self.X[curr_view_idx, :]: every index must lie in [-rows, rows).
RowsInBounds(idx, xr) == \A k \in 1..Len(idx) : (0 - xr) <= idx[k] /\ idx[k] < xr

\* numpy counts a negative index from the end.
WrapRow(i, xr) == IF i < 0 THEN i + xr ELSE i

\* self.X[:, :] in place of self.X[curr_view_idx, :]: every view's covariance
\* built from all rows.
ViewRows_all(idx, xr) == Arange(0, xr)
\* The rows of X that view vv's covariance is built from.
ViewRows(idx, xr) == [k \in 1..Len(idx) |-> WrapRow(idx[k], xr)]

\* The warp loop stops at the first view whose rows cannot be read or, when the
\* library refuses a 0-dimensional Gaussian (empty_ok false), whose range is
\* empty.
ViewRaises(idx, xr, empty_ok) ==
    ~RowsInBounds(idx, xr) \/ (Len(idx) = 0 /\ ~empty_ok)

\* The views the warp loop completes: those before the first one that raises.
ViewsDone(s, empty_ok) ==
    {vv \in DOMAIN s.view_idx :
        \A w \in DOMAIN s.view_idx :
            w <= vv => ~ViewRaises(s.view_idx[w], s.X, empty_ok)}

\* What gp_likelihood unpacks from the vector minimize passes, which has the
\* layout of param_init.
Unpacked(s) ==
    UnpackParams(ParamInit(n_noise_variance_params, n_kernel_params,
                           n_spatial_dims, s.N),
                 n_kernel_params, n_spatial_dims, s.N)

\* kernel_params[: n_kernel_params // 2] and kernel_params[n_kernel_params // 2 :]
KernelParamsWarpModel(kp) == Slice(kp, 0, n_kernel_params \div 2)
KernelParamsObsModel(kp) == Slice(kp, n_kernel_params \div 2, Len(kp))

\* X_warped[curr_view_idx, dd]
WarpedColumn(Xw, idx, dd, N) == [k \in 1..Len(idx) |-> Xw[WrapRow(idx[k], N)][dd]]

\* LL_warp: one mvn.logpdf per completed view and spatial dimension, in loop
\* order; each term records the entries of X_warped it scores, the rows of X
\* behind its covariance and the kernel parameters of that covariance.
WarpTerms(s, empty_ok) ==
    [k \in 1..(Cardinality(ViewsDone(s, empty_ok)) * n_spatial_dims) |->
        LET vv == (k - 1) \div n_spatial_dims
            dd == (k - 1) % n_spatial_dims
        IN [view |-> vv,
            dim  |-> dd,
            x    |-> WarpedColumn(Unpacked(s).X_warped, s.view_idx[vv], dd, s.N),
            rows |-> ViewRows(s.view_idx[vv], s.X),
            kernel |-> KernelParamsWarpModel(Unpacked(s).kernel_params)]]

\* LL_obs: one mvn.logpdf per output channel jj, of Y[:, jj] under the
\* covariance built from all of X_warped with the observation kernel
\* parameters plus the noise variance.
ObsTerms(s) ==
    [k \in 1..s.n_genes |->
        [channel |-> k - 1,
         y_rows |-> Arange(0, s.Y),
         x_rows |-> Arange(0, s.N),
         kernel |-> KernelParamsObsModel(Unpacked(s).kernel_params),
         noise |-> Unpacked(s).noise_variance]]

\* One evaluation of gp_likelihood, as minimize or summary makes it; an
\* exception in the warp loop leaves before LL_obs. Whether mvn.logpdf
\* accepts an empty vector with a 0 x 0 covariance is the library's choice.
GpLikelihood ==
    /\ pc = "fitting"
    /\ n_evals < MaxEvals
    /\ \E empty_ok \in BOOLEAN :
        /\ LL_warp_terms' = WarpTerms(self, empty_ok)
        /\ IF ViewsDone(self, empty_ok) = DOMAIN self.view_idx
           THEN pc' = "fitting" /\ err' = NoErr /\ LL_obs_terms' = ObsTerms(self)
           ELSE LET bad == CHOOSE vv \in DOMAIN self.view_idx :
                            /\ vv \notin ViewsDone(self, empty_ok)
                            /\ \A w \in DOMAIN self.view_idx :
                                  w < vv => w \in ViewsDone(self, empty_ok)
                IN /\ pc' = "raised"
                   /\ LL_obs_terms' = <<>>
                   /\ err' = IF ~RowsInBounds(self.view_idx[bad], self.X)
                             THEN [type |-> "IndexError", at |-> "gp_likelihood"]
                             ELSE [type |-> "ValueError", at |-> "mvn.logpdf"]
    /\ n_evals' = n_evals + 1
    /\ UNCHANGED <<X_rows, Y_rows, n_views, n_samples_list, self, Y_cols,
                   X_vals, Y_vals, ret>>
    /\ UNCHANGED <<unpackVars, driverVars>>

\* minimize returns; fit unpacks res.x into local names and ends without a
\* return statement: the caller gets None and the object no new attribute.
FitReturn ==
    /\ pc = "fitting"
    /\ n_evals >= 1
    /\ pc' = "fitted"
    /\ ret' = "None"
    /\ UNCHANGED <<X_rows, Y_rows, n_views, n_samples_list, self, err, n_evals,
                   LL_warp_terms, Y_cols, X_vals, Y_vals, LL_obs_terms>>
    /\ UNCHANGED <<unpackVars, driverVars>>

\* ------------------------------------------------------- experiment drivers
Views == {0, 1}

RECURSIVE SortedSeq(_)
\* np.intersect1d / np.setdiff1d return their result sorted ascending.
SortedSeq(S) ==
    IF S = {} THEN <<>>
    ELSE LET m == CHOOSE x \in S : \A y \in S : x <= y
         IN <<m>> \o SortedSeq(S \ {m})

\* fixed_view_idx=0 in the slideseq driver's VariationalGPSA(...); the st
\* driver leaves it out (commented), so no view is fixed there.
FixedViews_none(d) == {}
FixedViews(d) == IF d = "slideseq" THEN {0} ELSE {}

\* model.create_view_idx_dict(data_dict)[0]: the contiguous index range of each
\* view, from the per-view sample counts.
CreateViewIdx(l) == ViewIdx(Len(l), l)

\* The view whose range holds 0-based index i.
ViewOf(vi, i) == CHOOSE v \in DOMAIN vi : i \in Range(vi[v])

\* G_means of model.forward(X_spatial, view_idx, Ns, ...): a fixed view keeps
\* its input coordinates, a learned view is moved by its warp.
G_means(X, vi, p, fixed) ==
    [k \in 1..Len(X) |->
        IF ViewOf(vi, k - 1) \in fixed THEN X[k] ELSE X[k] + p[ViewOf(vi, k - 1)]]

\* model.forward and model.loss_fn only return tensors: the parameters after
\* the call are the parameters before it.
ParamsAfterCall(p) == p

NoData ==
    [n_samples_list |-> <<>>, X |-> <<>>, Y |-> <<>>, view_idx |-> <<>>,
     test_idx |-> <<>>, train_idx |-> <<>>,
     x_train |-> <<>>, y_train |-> <<>>, x_test |-> <<>>, y_test |-> <<>>,
     n_samples_list_train |-> <<>>, n_samples_list_test |-> <<>>,
     view_idx_train |-> <<>>, view_idx_test |-> <<>>]

\* a[idx]: numpy's integer-array indexing, a new array of the rows named by idx.
Take(a, idx) == [k \in 1..Len(idx) |-> a[idx[k] + 1]]

\* np.cumsum flattens its argument: [[0], [n_drop]] is read as [0, n_drop].
RECURSIVE Flatten(_)
Flatten(l) == IF l = <<>> THEN <<>> ELSE Head(l) \o Flatten(Tail(l))

\* n_samples_list after `n_samples_list_train = n_samples_list.copy();
\* n_samples_list_train[1] -= n_drop`: the decrement goes to the copy.
ListAfterSplit(l, n_drop) == l

NoFwd ==
    [kind |-> "none", prediction_mode |-> FALSE, S |-> 0, training |-> FALSE,
     grad |-> FALSE, params_read |-> <<>>, X |-> <<>>, view_idx |-> <<>>,
     G_means |-> <<>>]

ZeroParams == [v \in Views |-> 0]

\* A score: which metric, of which predictions, computed at which epoch
\* (-1: before training).
Score(metric, preds, epoch) == [metric |-> metric, preds |-> preds, epoch |-> epoch]
NoScore == Score("none", "none", -1)

\* One repeat's split (lines 271-307). np.random.choice draws n_drop rows of
\* the second view, of which the interior ones (any of them) become test_idx.
\* The repeat starts a new model, optimizer and epoch loop.
Split ==
    /\ driver = "slideseq"
    /\ dpc = "split"
    /\ LET second_view_idx == data.view_idx[2]
           n_drop_drawn == data.n_samples_list[2] \div FRAC_TEST_INV
       IN \E chosen \in SUBSET Range(second_view_idx) :
            /\ Cardinality(chosen) = n_drop_drawn
            /\ \E T \in SUBSET chosen :
                 LET test_idx == SortedSeq(T)
                     n_drop == Len(test_idx)
                     keep_idx == SortedSeq(Range(second_view_idx) \ T)
                     train_idx == Arange(0, data.n_samples_list[1]) \o keep_idx
                 IN data' = [data EXCEPT
                      !.test_idx = test_idx,
                      !.train_idx = train_idx,
                      !.x_train = Take(data.X, train_idx),
                      !.y_train = Take(data.Y, train_idx),
                      !.x_test = Take(data.X, test_idx),
                      !.y_test = Take(data.Y, test_idx),
                      !.n_samples_list_train =
                          [data.n_samples_list EXCEPT ![2] = @ - n_drop],
                      !.n_samples_list_test = <<<<0>>, <<n_drop>>>>,
                      !.n_samples_list = ListAfterSplit(@, n_drop),
                      !.view_idx_train = <<>>,
                      !.view_idx_test = <<>>]
    /\ dpc' = "model"
    /\ looped' = <<>>
    /\ t' = 0
    /\ calls' = <<>>
    /\ fwd' = NoFwd
    /\ loss' = 0
    /\ n_steps' = 0
    /\ n_skipped' = 0
    /\ UNCHANGED <<driver, derr, training, grad_enabled, params, step_out>>
    /\ UNCHANGED resultVars
    /\ UNCHANGED engineVars

\* VariationalGPSA(...) / VariationalWarpGP(...) and create_view_idx_dict.
ConstructModel ==
    /\ dpc = "model"
    /\ IF driver = "slideseq"
       THEN /\ data' = [data EXCEPT
                 !.view_idx_train = CreateViewIdx(data.n_samples_list_train),
                 !.view_idx_test =
                     CreateViewIdx(Flatten(data.n_samples_list_test))]
            /\ dpc' = "union"
       ELSE /\ data' = [data EXCEPT
                 !.train_idx = Arange(0, SumSeq(data.n_samples_list)),
                 !.x_train = data.X,
                 !.y_train = data.Y,
                 !.n_samples_list_train = data.n_samples_list,
                 !.view_idx_train = CreateViewIdx(data.n_samples_list)]
            /\ dpc' = "loop"
    /\ params' = ZeroParams
    /\ step_out' = ZeroParams
    /\ training' = TRUE
    /\ UNCHANGED <<driver, derr, looped, t, grad_enabled, calls, fwd, loss,
                   n_steps, n_skipped>>
    /\ UNCHANGED resultVars
    /\ UNCHANGED engineVars

\* The union baseline (lines 346-358): sklearn refuses an empty X_test.
BaselineUnion ==
    /\ dpc = "union"
    /\ IF Len(data.test_idx) = 0
       THEN /\ dpc' = "aborted"
            /\ derr' = [type |-> "ValueError", at |-> "baseline_union"]
            /\ errors_union' = errors_union
       ELSE /\ dpc' = "separate"
            /\ derr' = derr
            /\ errors_union' = Append(errors_union, Score("r2", "knn_union", -1))
    /\ UNCHANGED <<driver, data, looped, t, training, grad_enabled, params,
                   calls, fwd, loss, n_steps, step_out, n_skipped>>
    /\ UNCHANGED <<repeat_idx, errors_separate, errors_gpsa, error_gpsa>>
    /\ UNCHANGED engineVars

\* What the per-view loop does with view vv: `if len(curr_testX) == 0: continue`.
PerView(vi_test, vv) == IF Len(vi_test[vv]) = 0 THEN "skipped" ELSE "predicted"

\* The per-view baseline (lines 365-396) and the optimizer's creation (398).
PerViewLoop ==
    /\ dpc = "separate"
    /\ looped' = [vv \in Views |-> PerView(data.view_idx_test, vv)]
    /\ IF \A vv \in Views : PerView(data.view_idx_test, vv) = "skipped"
       THEN /\ dpc' = "aborted"
            /\ derr' = [type |-> "ValueError", at |-> "np.concatenate"]
            /\ errors_separate' = errors_separate
       ELSE /\ dpc' = "loop"
            /\ derr' = derr
            /\ errors_separate' =
                   Append(errors_separate, Score("r2", "knn_separate", -1))
    /\ UNCHANGED <<driver, data, t, training, grad_enabled, params, calls, fwd,
                   loss, n_steps, step_out, n_skipped>>
    /\ UNCHANGED <<repeat_idx, errors_union, errors_gpsa, error_gpsa>>
    /\ UNCHANGED engineVars

\* for t in range(N_EPOCHS): an off-by-one bound ends the loop one epoch early.
LoopContinues_short(tt) == tt < N_EPOCHS - 1
LoopContinues(tt) == tt < N_EPOCHS

\* The epoch loop's head: the next iteration calls train, or the loop is over.
LoopHead ==
    /\ dpc = "loop"
    /\ IF LoopContinues(t)
       THEN dpc' = "train_mode" /\ calls' = <<>>
       ELSE dpc' = (IF driver = "slideseq" THEN "append" ELSE "model_eval")
            /\ calls' = calls
    /\ UNCHANGED <<driver, derr, data, looped, t, training, grad_enabled,
                   params, fwd, loss, n_steps, step_out, n_skipped>>
    /\ UNCHANGED resultVars
    /\ UNCHANGED engineVars

\* The statements of train(), in the order of the source; zero_grad moved
\* after backward would wipe the gradients before the step.
TrainStepNext_swapped(p) ==
    CASE p = "train_mode" -> "forward"
      [] p = "forward"    -> "loss"
      [] p = "loss"       -> "backward"
      [] p = "backward"   -> "zero_grad"
      [] p = "zero_grad"  -> "step"
      [] p = "step"       -> "print_check"
TrainStepNext(p) ==
    CASE p = "train_mode" -> "forward"
      [] p = "forward"    -> "loss"
      [] p = "loss"       -> "zero_grad"
      [] p = "zero_grad"  -> "backward"
      [] p = "backward"   -> "step"
      [] p = "step"       -> "print_check"

\* model.train()
TrainMode ==
    /\ dpc = "train_mode"
    /\ training' = TRUE
    /\ calls' = Append(calls, "model.train")
    /\ dpc' = TrainStepNext(dpc)
    /\ UNCHANGED <<driver, derr, data, looped, t, grad_enabled, params, fwd,
                   loss, n_steps, step_out, n_skipped>>
    /\ UNCHANGED resultVars
    /\ UNCHANGED engineVars

\* S of train's forward: 3 in slideseq; the st driver passes none (0 here).
TrainS(d) == IF d = "slideseq" THEN S_train ELSE 0

\* model.forward(X_spatial={"expression": x_train}, view_idx=view_idx_train,
\* Ns=Ns_train, S=3); a failed factorisation raises and ends the driver.
TrainForward ==
    /\ dpc = "forward"
    /\ \E ok \in BOOLEAN :
        IF ok
        THEN /\ fwd' = [kind |-> "train", prediction_mode |-> FALSE,
                        S |-> TrainS(driver), training |-> training,
                        grad |-> grad_enabled, params_read |-> params,
                        X |-> data.x_train, view_idx |-> data.view_idx_train,
                        G_means |-> G_means(data.x_train, data.view_idx_train,
                                            params, FixedViews(driver))]
             /\ calls' = Append(calls, "forward")
             /\ dpc' = TrainStepNext(dpc)
             /\ derr' = derr
        ELSE /\ dpc' = "aborted"
             /\ derr' = [type |-> "NumericalError", at |-> "train_forward"]
             /\ UNCHANGED <<fwd, calls>>
    /\ params' = ParamsAfterCall(params)
    /\ UNCHANGED <<driver, data, looped, t, training, grad_enabled, loss,
                   n_steps, step_out, n_skipped>>
    /\ UNCHANGED resultVars
    /\ UNCHANGED engineVars

\* loss = loss_fn(data_dict_train, F_samples): any value.
TrainLoss ==
    /\ dpc = "loss"
    /\ loss' \in 0..MaxLoss
    /\ calls' = Append(calls, "loss_fn")
    /\ dpc' = TrainStepNext(dpc)
    /\ params' = ParamsAfterCall(params)
    /\ UNCHANGED <<driver, derr, data, looped, t, training, grad_enabled, fwd,
                   n_steps, step_out, n_skipped>>
    /\ UNCHANGED resultVars
    /\ UNCHANGED engineVars

\* optimizer.zero_grad()
ZeroGrad ==
    /\ dpc = "zero_grad"
    /\ calls' = Append(calls, "zero_grad")
    /\ dpc' = TrainStepNext(dpc)
    /\ UNCHANGED <<driver, derr, data, looped, t, training, grad_enabled,
                   params, fwd, loss, n_steps, step_out, n_skipped>>
    /\ UNCHANGED resultVars
    /\ UNCHANGED engineVars

\* loss.backward()
Backward ==
    /\ dpc = "backward"
    /\ calls' = Append(calls, "backward")
    /\ dpc' = TrainStepNext(dpc)
    /\ UNCHANGED <<driver, derr, data, looped, t, training, grad_enabled,
                   params, fwd, loss, n_steps, step_out, n_skipped>>
    /\ UNCHANGED resultVars
    /\ UNCHANGED engineVars

\* optimizer.step(): the learned views' parameters take any new values; train
\* then returns (loss.item(), G_means).
OptStep ==
    /\ dpc = "step"
    /\ params' \in {q \in [Views -> 0..MaxParam] :
                      \A v \in FixedViews(driver) : q[v] = params[v]}
    /\ step_out' = params'
    /\ n_steps' = n_steps + 1
    /\ calls' = Append(calls, "step")
    /\ dpc' = TrainStepNext(dpc)
    /\ UNCHANGED <<driver, derr, data, looped, t, training, grad_enabled, fwd,
                   loss, n_skipped>>
    /\ UNCHANGED resultVars
    /\ UNCHANGED engineVars

\* An exception swallowed inside the loop: the iteration is given up and the
\* loop goes on with the next one.
TrainRaise_skipped ==
    /\ dpc \in {"loss", "zero_grad", "backward", "step"}
    /\ t' = t + 1
    /\ dpc' = "loop"
    /\ UNCHANGED <<driver, derr, data, looped, training, grad_enabled, params,
                   calls, fwd, loss, n_steps, step_out, n_skipped>>
    /\ UNCHANGED resultVars
    /\ UNCHANGED engineVars
\* loss_fn, zero_grad, backward or step raises: train has no handler and the
\* call in the epoch loop (line 427 / 220) is outside any try block, so the
\* exception leaves the loop and ends the driver.
TrainRaise ==
    /\ dpc \in {"loss", "zero_grad", "backward", "step"}
    /\ dpc' = "aborted"
    /\ derr' = [type |-> "RuntimeError", at |-> dpc]
    /\ UNCHANGED <<driver, data, looped, t, training, grad_enabled, params,
                   calls, fwd, loss, n_steps, step_out, n_skipped>>
    /\ UNCHANGED resultVars
    /\ UNCHANGED engineVars

\* `if t % PRINT_EVERY == 0 or t == N_EPOCHS - 1` (slideseq),
\* `if t % PRINT_EVERY == 0` (st).
EvalDue(d, tt) ==
    IF d = "slideseq"
    THEN tt % PRINT_EVERY = 0 \/ tt = N_EPOCHS - 1
    ELSE tt % PRINT_EVERY = 0

\* The test after train returns: the periodic block, or the next epoch.
PrintCheck ==
    /\ dpc = "print_check"
    /\ IF EvalDue(driver, t)
       THEN /\ dpc' = (IF driver = "slideseq" THEN "eval_forward" ELSE "callback")
            /\ t' = t
       ELSE /\ dpc' = "loop"
            /\ t' = t + 1
    /\ UNCHANGED <<driver, derr, data, looped, training, grad_enabled, params,
                   calls, fwd, loss, n_steps, step_out, n_skipped>>
    /\ UNCHANGED resultVars
    /\ UNCHANGED engineVars

\* model.forward(X_spatial={"expression": x_test}, view_idx=view_idx_test,
\* Ns=Ns_test, prediction_mode=True, S=10): outside the try block, so an error
\* ends the driver.
EvalForward ==
    /\ dpc = "eval_forward"
    /\ \E ok \in BOOLEAN :
        IF ok
        THEN /\ fwd' = [kind |-> "eval", prediction_mode |-> TRUE, S |-> S_eval,
                        training |-> training, grad |-> grad_enabled,
                        params_read |-> params, X |-> data.x_test,
                        view_idx |-> data.view_idx_test,
                        G_means |-> G_means(data.x_test, data.view_idx_test,
                                            params, FixedViews(driver))]
             /\ dpc' = "eval_knn"
             /\ derr' = derr
        ELSE /\ dpc' = "aborted"
             /\ derr' = [type |-> "NumericalError", at |-> "eval_forward"]
             /\ fwd' = fwd
    /\ params' = ParamsAfterCall(params)
    /\ UNCHANGED <<driver, data, looped, t, training, grad_enabled, calls,
                   loss, n_steps, step_out, n_skipped>>
    /\ UNCHANGED resultVars
    /\ UNCHANGED engineVars

\* error_gpsa after one evaluation block: line 458 assigns the mean squared
\* error of the model's own predictions; the try block then replaces it by the
\* R2 of the k-NN predictions from the aligned coordinates, unless it raised
\* before that assignment.
ErrorGpsaAfterEval(raised, epoch) ==
    IF raised THEN Score("mse", "gpsa", epoch)
    ELSE Score("r2", "knn_aligned", epoch)

\* An evaluation block that also stepped the optimizer.
EvalKnn_stepping ==
    /\ dpc = "eval_knn"
    /\ \E raised \in BOOLEAN :
        /\ n_skipped' = IF raised THEN n_skipped + 1 ELSE n_skipped
        /\ error_gpsa' = ErrorGpsaAfterEval(raised, t)
    /\ params' \in [Views -> 0..MaxParam]
    /\ t' = t + 1
    /\ dpc' = "loop"
    /\ UNCHANGED <<driver, derr, data, looped, training, grad_enabled, calls,
                   fwd, loss, n_steps, step_out>>
    /\ UNCHANGED <<repeat_idx, errors_union, errors_separate, errors_gpsa>>
    /\ UNCHANGED engineVars
\* The rest of the slideseq evaluation block (lines 440-479): the k-NN fit,
\* prediction and score sit in `try: ... except: continue`, so an error there
\* is dropped and the loop goes on.
EvalKnn ==
    /\ dpc = "eval_knn"
    /\ \E raised \in BOOLEAN :
        /\ n_skipped' = IF raised THEN n_skipped + 1 ELSE n_skipped
        /\ error_gpsa' = ErrorGpsaAfterEval(raised, t)
    /\ t' = t + 1
    /\ dpc' = "loop"
    /\ UNCHANGED <<driver, derr, data, looped, training, grad_enabled, params,
                   calls, fwd, loss, n_steps, step_out>>
    /\ UNCHANGED <<repeat_idx, errors_union, errors_separate, errors_gpsa>>
    /\ UNCHANGED engineVars

\* The st driver's periodic block (lines 222-259): callback_twod and the
\* printed alignment error.
Callback ==
    /\ dpc = "callback"
    /\ t' = t + 1
    /\ dpc' = "loop"
    /\ UNCHANGED <<driver, derr, data, looped, training, grad_enabled, params,
                   calls, fwd, loss, n_steps, step_out, n_skipped>>
    /\ UNCHANGED resultVars
    /\ UNCHANGED engineVars

\* for repeat_idx in range(N_REPEATS)
MoreRepeats(r) == r + 1 < N_REPEATS

\* After the slideseq loop: errors_gpsa.append(error_gpsa), the results table,
\* and the next repeat if there is one.
AppendResult ==
    /\ dpc = "append"
    /\ errors_gpsa' = Append(errors_gpsa, error_gpsa)
    /\ IF MoreRepeats(repeat_idx)
       THEN repeat_idx' = repeat_idx + 1 /\ dpc' = "split"
       ELSE repeat_idx' = repeat_idx /\ dpc' = "stopped"
    /\ UNCHANGED <<driver, derr, data, looped, t, training, grad_enabled,
                   params, calls, fwd, loss, n_steps, step_out, n_skipped>>
    /\ UNCHANGED <<errors_union, errors_separate, error_gpsa>>
    /\ UNCHANGED engineVars

\* After the st loop: model.eval() before the final plot.
ModelEval ==
    /\ dpc = "model_eval"
    /\ training' = FALSE
    /\ dpc' = "stopped"
    /\ UNCHANGED <<driver, derr, data, looped, t, grad_enabled, params, calls,
                   fwd, loss, n_steps, step_out, n_skipped>>
    /\ UNCHANGED resultVars
    /\ UNCHANGED engineVars

\* ---------------------------------------------------------- specifications
WarpIdle ==
    /\ X_rows = 0 /\ Y_rows = 0 /\ n_views = 1 /\ n_samples_list = <<0>>
    /\ self = <<>> /\ pc = "off" /\ err = NoErr /\ n_evals = 0
    /\ LL_warp_terms = <<>>
    /\ Y_cols = 0 /\ X_vals = <<>> /\ Y_vals = <<>> /\ LL_obs_terms = <<>>
    /\ ret = "nothing"

UnpackIdle ==
    /\ ucfg = <<>> /\ upc = "off" /\ flat = <<>> /\ unpacked = NoUnpacked

DriverStart(d, l) ==
    /\ driver = d
    /\ dpc = (IF d = "off" THEN "off" ELSE IF d = "slideseq" THEN "split" ELSE "model")
    /\ derr = NoErr
    /\ data = IF d = "off" THEN NoData
              ELSE [NoData EXCEPT
                      !.n_samples_list = l,
                      !.X = Arange(0, SumSeq(l)),
                      !.Y = Arange(0, SumSeq(l)),
                      !.view_idx = <<Arange(0, l[1]), Arange(l[1], l[1] + l[2])>>]
    /\ looped = <<>>
    /\ t = 0
    /\ training = TRUE
    /\ grad_enabled = TRUE
    /\ params = ZeroParams
    /\ calls = <<>>
    /\ fwd = NoFwd
    /\ loss = 0
    /\ n_steps = 0
    /\ step_out = ZeroParams
    /\ n_skipped = 0
    /\ repeat_idx = 0
    /\ errors_union = <<>>
    /\ errors_separate = <<>>
    /\ errors_gpsa = <<>>
    /\ error_gpsa = NoScore

\* The constructor's arguments: any row counts, any n_views, any count list.
Init ==
    /\ X_rows \in 0..MaxRows
    /\ Y_rows \in 0..MaxRows
    /\ n_views \in 1..(MaxViews + 1)
    /\ n_samples_list \in CountLists
    /\ self = <<>>
    /\ pc = "new"
    /\ err = NoErr
    /\ n_evals = 0
    /\ LL_warp_terms = <<>>
    /\ Y_cols \in 0..MaxGenes
    /\ X_vals = Arange(0, X_rows)
    /\ Y_vals = Arange(0, Y_rows)
    /\ LL_obs_terms = <<>>
    /\ ret = "nothing"
    /\ UnpackIdle
    /\ DriverStart("off", <<>>)

Next == Construct \/ FitStart \/ GpLikelihood \/ FitReturn

Spec == Init /\ [][Next]_vars

\* fit and unpack_params for any configuration: the constructor stores
\* n_noise_variance_params, n_kernel_params and n_spatial_dims unchecked.
InitUnpack ==
    /\ WarpIdle
    /\ DriverStart("off", <<>>)
    /\ ucfg \in [n_noise_variance_params : 0..MaxSegment,
                  n_kernel_params : 0..MaxSegment,
                  n_spatial_dims : 1..MaxDims,
                  N : 0..MaxN]
    /\ upc = "new"
    /\ flat = <<>>
    /\ unpacked = NoUnpacked

NextUnpack == FitBuild \/ Unpack

SpecUnpack == InitUnpack /\ [][NextUnpack]_vars

\* The drivers: slideseq with views of n0 and n1 samples, st with two views of
\* the same size (apply_gp_warp(..., n_views=2)).
InitTrain ==
    /\ WarpIdle
    /\ UnpackIdle
    /\ \/ \E n0 \in 1..MaxN0, n1 \in 1..MaxN1 : DriverStart("slideseq", <<n0, n1>>)
       \/ \E n \in 1..MaxN0 : DriverStart("st", <<n, n>>)

NextTrain ==
    \/ Split \/ ConstructModel \/ BaselineUnion \/ PerViewLoop
    \/ LoopHead \/ TrainMode \/ TrainForward \/ TrainLoss \/ ZeroGrad
    \/ Backward \/ OptStep \/ TrainRaise \/ PrintCheck \/ EvalForward \/ EvalKnn
    \/ Callback \/ AppendResult \/ ModelEval

SpecTrain == InitTrain /\ [][NextTrain]_vars

\* Either program: the engine or a driver.
InitAll == Init \/ InitTrain

NextAll == Next \/ NextTrain

SpecAll == InitAll /\ [][NextAll]_vars

\* ------------------------------------------------------------------ claims
\* The constructor returned an object (later calls keep it).
Constructed ==
    \/ pc \in {"constructed", "fitting", "fitted"}
    \/ pc = "raised" /\ err.at \in {"param_init", "gp_likelihood", "mvn.logpdf"}

RECURSIVE ConcatViews(_, _)
\* The ranges of views 0 .. k-1, one after the other.
ConcatViews(vi, k) == IF k = 0 THEN <<>> ELSE ConcatViews(vi, k - 1) \o vi[k - 1]

NonNegative(l) == \A k \in 1..Len(l) : l[k] >= 0

\* C1: for a list of non-negative counts, one per view, the constructed
\* view_idx ranges are pairwise disjoint, cover exactly 0..N-1 with N the sum
\* of the counts, range v has n_samples_list[v] entries, and the ranges are
\* contiguous and ascending in view order.
C1_ViewIdxPartition ==
    (Constructed /\ n_views = Len(n_samples_list) /\ NonNegative(n_samples_list))
    => LET vi == self.view_idx
           N == SumSeq(n_samples_list)
       IN /\ self.N = N
          /\ DOMAIN vi = 0..(n_views - 1)
          /\ \A v \in DOMAIN vi : Len(vi[v]) = n_samples_list[v + 1]
          /\ \A v, w \in DOMAIN vi :
                v # w => Range(vi[v]) \cap Range(vi[w]) = {}
          /\ UNION {Range(vi[v]) : v \in DOMAIN vi} = 0..(N - 1)
          /\ ConcatViews(vi, n_views) = Arange(0, N)

\* C1 witness: two views with different positive counts were constructed.
C1_Witness ==
    /\ pc = "constructed"
    /\ n_views = 2 /\ Len(n_samples_list) = 2
    /\ n_samples_list[1] >= 1 /\ n_samples_list[2] > n_samples_list[1]

\* C2: a count list whose sum differs from the number of rows of X makes the
\* constructor fail; no object is produced and nothing is left to fit.
C2_SumMismatchRejected ==
    (SumSeq(n_samples_list) # X_rows /\ pc # "new")
    => (pc = "raised" /\ ~Constructed)

\* C3: X and Y with different row counts make the constructor raise before
\* any attribute of the object is assigned.
C3_ShapeMismatchRaisesFirst ==
    (X_rows # Y_rows /\ pc # "new")
    => /\ pc = "raised"
       /\ err = [type |-> "ValueError", at |-> "shape_check"]
       /\ DOMAIN self = {}

\* C3 witness: the constructor ran on mismatched row counts, with a count list
\* that fits X.
C3_Witness ==
    /\ pc = "raised"
    /\ X_rows # Y_rows
    /\ SumSeq(n_samples_list) = X_rows /\ NonNegative(n_samples_list)
    /\ n_views = Len(n_samples_list)

\* C4: a negative per-view count makes view-index construction fail; no index
\* ranges are ever returned for such a list.
C4_NegativeCountRejected ==
    (~NonNegative(n_samples_list) /\ pc # "new")
    => (pc = "raised" /\ ~Constructed)

\* C5: a view whose declared sample count is zero raises an error in the
\* per-view stage that follows view-index construction; it is never silently
\* taken as an empty index range.
C5_ZeroCountViewRaises ==
    \A v \in DOMAIN looped :
        Flatten(data.n_samples_list_test)[v + 1] = 0
        => (looped[v] # "skipped" /\ derr # NoErr)

TrainCalls == <<"model.train", "forward", "loss_fn", "zero_grad", "backward", "step">>

TrainPositions == {"train_mode", "forward", "loss", "zero_grad", "backward", "step"}

\* C7: a training iteration makes forward, loss, gradient and optimizer step in
\* that order, each once; iteration t starts only after t optimizer steps, and
\* its forward reads the parameters the last step produced.
C7_TrainStepOrder ==
    /\ dpc = "print_check" => calls = TrainCalls
    /\ dpc \in TrainPositions =>
          /\ Len(calls) < Len(TrainCalls)
          /\ calls = SubSeq(TrainCalls, 1, Len(calls))
          /\ n_steps = t
    /\ (dpc \in TrainPositions /\ Len(calls) >= 2) =>
          (fwd.kind = "train" /\ fwd.params_read = step_out)
    /\ dpc = "print_check" => n_steps = t + 1

\* C7 witness: the second iteration has finished its step, after a first step
\* that changed the parameters.
C7_Witness ==
    /\ dpc = "print_check"
    /\ t = 1
    /\ fwd.params_read # ZeroParams

EpochLoopPositions ==
    TrainPositions \cup {"loop", "print_check", "eval_forward", "eval_knn", "callback"}

\* C9: whatever the loss values, the loop makes exactly N_EPOCHS training
\* iterations and then stops, also when an evaluation raised and was skipped;
\* it leaves early only with an exception.
C9_RunsExactlyNEpochs ==
    /\ n_steps <= N_EPOCHS
    /\ t <= N_EPOCHS
    /\ dpc \in {"append", "model_eval", "stopped"} =>
          (n_steps = N_EPOCHS /\ t = N_EPOCHS)
    /\ dpc \in EpochLoopPositions => ENABLED NextTrain

\* C9 witness: the slideseq loop stopped after an evaluation was skipped.
C9_Witness ==
    /\ driver = "slideseq"
    /\ dpc = "stopped"
    /\ n_skipped >= 1
    /\ loss # 0

\* C10: every evaluation forward is made with the model out of training mode,
\* with prediction_mode set, with gradient tracking off and with more samples
\* than a training forward.
C10_EvalForwardInEvaluatingState ==
    fwd.kind = "eval"
    => /\ ~fwd.training
       /\ fwd.prediction_mode
       /\ ~fwd.grad
       /\ fwd.S > S_train

\* The places of a training iteration where an exception can be raised.
TrainErrorSites == {"train_forward", "loss", "zero_grad", "backward", "step"}

C11_State ==
    /\ (derr # NoErr) <=> (dpc = "aborted")
    /\ dpc = "aborted" => ~ENABLED NextTrain
    /\ (dpc = "aborted" /\ derr.at \in TrainErrorSites) =>
          /\ n_steps = t
          /\ Len(errors_gpsa) = repeat_idx
    /\ (err # NoErr) <=> (pc = "raised")
    /\ pc = "raised" => (~ENABLED Next /\ ret = "nothing")

C11_Step ==
    (dpc \in TrainPositions /\ dpc' \notin TrainPositions \cup {"print_check"})
    => (dpc' = "aborted" /\ derr' # NoErr)

\* C11: an error raised in a training iteration (forward, loss, gradient or
\* optimizer step) ends the running call: the driver stops at the exception and
\* fit raises; nothing runs afterwards, the iteration is neither retried nor
\* skipped, its step is not counted, and no result is recorded for it.
C11_ErrorEndsCall == []C11_State /\ [][C11_Step]_vars

\* C11 witness: in the second repeat, after a completed iteration, backward
\* raised and the driver stopped there.
C11_Witness ==
    /\ dpc = "aborted"
    /\ derr.at = "backward"
    /\ t >= 1
    /\ repeat_idx = 1
    /\ Len(errors_gpsa) = 1

\* The attributes the constructor and fit's plotting set.
ConstructorAttrs == {"X", "Y", "n_views", "n_samples_list", "N", "n_genes", "view_idx"}
PlotAttrNames == {"plot_updates", "n_to_plot", "data_ax", "aligned_ax"}

\* C12: after fit completes, the optimised warped coordinates and the final
\* objective value are available to the caller, as fit's return value or as
\* state on the model.
C12_FitResultAvailable ==
    pc = "fitted"
    => (ret # "None" \/ DOMAIN self \ (ConstructorAttrs \cup PlotAttrNames) # {})

\* The view data the object holds.
ViewData(s) ==
    [X |-> s.X, Y |-> s.Y, n_samples_list |-> s.n_samples_list,
     view_idx |-> s.view_idx]

C13_Step ==
    /\ Constructed =>
          /\ ViewData(self') = ViewData(self)
          /\ X_vals' = X_vals
          /\ Y_vals' = Y_vals
    /\ data'.X = data.X
    /\ data'.Y = data.Y

C13_State ==
    /\ data.X = Arange(0, Len(data.X))
    /\ data.Y = Arange(0, Len(data.Y))
    /\ (driver = "slideseq" /\ dpc \notin {"split", "off"}) =>
          /\ data.x_train = Take(data.X, data.train_idx)
          /\ data.y_train = Take(data.Y, data.train_idx)
          /\ data.x_test = Take(data.X, data.test_idx)
          /\ data.y_test = Take(data.Y, data.test_idx)
    /\ Constructed => (X_vals = Arange(0, X_rows) /\ Y_vals = Arange(0, Y_rows))

\* C13: once constructed, the object's X, Y, n_samples_list and view_idx, and
\* the contents of X and Y, stay as they were at construction through fit and
\* every gp_likelihood evaluation; in the slideseq driver the full X and Y are
\* the same at every repeat and the train and test parts are X and Y indexed
\* by train_idx and test_idx.
C13_ViewDataNeverModified == []C13_State /\ [][C13_Step]_vars

\* C13 witness: a fit with two views and several rows ran to its end.
C13_Witness ==
    /\ pc = "fitted"
    /\ n_views = 2
    /\ Len(X_vals) >= 2
    /\ self.plot_updates

\* The rows a view's index range names (negative indices counted from the end).
RowsOfView(s, vv) == {WrapRow(i, s.X) : i \in Range(s.view_idx[vv])}

\* C14: a completed gp_likelihood evaluation has exactly one warp term per
\* (view, spatial dimension), which scores that view's rows of column d of
\* X_warped under a covariance built from the same view's rows of X with the
\* warp-model kernel parameters, and exactly one observation term per output
\* channel, built from all rows of X_warped with the observation kernel
\* parameters; for a list of non-negative counts no warp term uses a row of
\* another view.
C14_LikelihoodTerms ==
    (pc \in {"fitting", "fitted"} /\ n_evals >= 1)
    => /\ Len(LL_warp_terms) = self.n_views * n_spatial_dims
       /\ \A vv \in DOMAIN self.view_idx, dd \in 0..(n_spatial_dims - 1) :
             Cardinality({k \in DOMAIN LL_warp_terms :
                             /\ LL_warp_terms[k].view = vv
                             /\ LL_warp_terms[k].dim = dd}) = 1
       /\ \A k \in DOMAIN LL_warp_terms :
             LET tm == LL_warp_terms[k]
             IN /\ Len(tm.rows) = Len(self.view_idx[tm.view])
                /\ Range(tm.rows) = RowsOfView(self, tm.view)
                /\ tm.x = [m \in 1..Len(tm.rows) |-> Elem("X", tm.rows[m], tm.dim)]
                /\ tm.kernel = <<Elem("kernel", 0, 0), Elem("kernel", 1, 0)>>
                /\ NonNegative(self.n_samples_list) =>
                      \A w \in DOMAIN self.view_idx :
                          w # tm.view =>
                              Range(tm.rows) \cap RowsOfView(self, w) = {}
       /\ Len(LL_obs_terms) = self.n_genes
       /\ \A jj \in 0..(self.n_genes - 1) :
             Cardinality({k \in DOMAIN LL_obs_terms :
                             LL_obs_terms[k].channel = jj}) = 1
       /\ \A k \in DOMAIN LL_obs_terms :
             /\ LL_obs_terms[k].x_rows = Arange(0, self.N)
             /\ LL_obs_terms[k].y_rows = Arange(0, self.N)
             /\ LL_obs_terms[k].kernel =
                   <<Elem("kernel", 2, 0), Elem("kernel", 3, 0)>>
             /\ LL_obs_terms[k].noise = [exp_plus_001_of |-> Elem("noise", 0, 0)]

\* C14 witness: an evaluation completed for two views of different sizes and
\* two output channels.
C14_Witness ==
    /\ pc = "fitting"
    /\ n_evals >= 1
    /\ n_samples_list = <<1, 2>>
    /\ n_views = 2
    /\ Y_cols = 2

\* C15: for every configuration, unpack_params applied to the vector fit
\* builds returns the noise parameters, the n_kernel_params kernel parameters,
\* the n_spatial_dims x n_spatial_dims mean matrix and the N x n_spatial_dims
\* matrix of warped coordinates whose row i is sample i.
C15_UnpackRecoversSegments ==
    upc = "unpacked"
    => /\ unpacked.raised = "none"
       /\ <<unpacked.noise_variance.exp_plus_001_of>> =
             Segment("noise", ucfg.n_noise_variance_params)
       /\ unpacked.kernel_params = Segment("kernel", ucfg.n_kernel_params)
       /\ unpacked.mean_params =
             [i \in 0..(ucfg.n_spatial_dims - 1) |->
                [j \in 0..(ucfg.n_spatial_dims - 1) |->
                    Elem("mean", i * ucfg.n_spatial_dims + j, 0)]]
       /\ unpacked.X_warped =
             [i \in 0..(ucfg.N - 1) |->
                [j \in 0..(ucfg.n_spatial_dims - 1) |-> Elem("X", i, j)]]

\* A list of integers in 0..hi, one per view. An entry that is itself a list
\* is no integer; the entries are told apart by how they print.
IsCountList(l, hi) ==
    /\ Len(l) = Cardinality(Views)
    /\ \A k \in 1..Len(l) : ToString(l[k]) \in {ToString(n) : n \in 0..hi}

\* C16: in every repeat train_idx and test_idx are disjoint and together are
\* all sample indices, test_idx holds only samples of the second view, every
\* sample of the first view is in train_idx, and the training and the test
\* count lists are lists of non-negative integers, one per view, summing to
\* the rows of x_train and of x_test.
C16_SplitInvariants ==
    (driver = "slideseq" /\ dpc \notin {"split", "off"})
    => /\ Range(data.train_idx) \cap Range(data.test_idx) = {}
       /\ Range(data.train_idx) \cup Range(data.test_idx) =
             0..(Len(data.X) - 1)
       /\ Range(data.test_idx) \subseteq Range(data.view_idx[2])
       /\ Range(data.view_idx[1]) \subseteq Range(data.train_idx)
       /\ IsCountList(data.n_samples_list_train, Len(data.X))
       /\ SumSeq(data.n_samples_list_train) = Len(data.x_train)
       /\ IsCountList(data.n_samples_list_test, Len(data.X))
       /\ SumSeq(Flatten(data.n_samples_list_test)) = Len(data.x_test)

\* C17: after repeat r each of the three result lists has r + 1 entries, and
\* every entry of errors_gpsa is the R2 of the k-NN predictions from the
\* aligned coordinates at the last training iteration, also when an
\* evaluation raised.
C17_ResultLists ==
    /\ (driver = "slideseq" /\ dpc \in {"split", "stopped"}) =>
          LET done == IF dpc = "stopped" THEN repeat_idx + 1 ELSE repeat_idx
          IN /\ Len(errors_union) = done
             /\ Len(errors_separate) = done
             /\ Len(errors_gpsa) = done
    /\ \A k \in DOMAIN errors_gpsa :
          errors_gpsa[k] = Score("r2", "knn_aligned", N_EPOCHS - 1)

====
